---- MODULE Spec2Model ----
(***************************************************************************)
(* Model of the catalogue application (FastAPI handlers of src/main.py     *)
(* over the product table of src/models.py).                               *)
(*                                                                         *)
(* Byte strings are sequences of numbers 0..255, text that the code        *)
(* inspects character by character (URLs, header values, digests) is a     *)
(* sequence of one-character strings, and text that the code only compares *)
(* as a whole (MIME types, names, credentials) is a TLA+ string.           *)
(*                                                                         *)
(* The functions of the module `crud` that main.py calls are not part of   *)
(* the sources (src/crud.py holds another revision of main.py); they are   *)
(* modelled from the specification's sections 3 and 4.                     *)
(***************************************************************************)
EXTENDS Integers, Sequences, FiniteSets, TLC

VARIABLES
    db,            \* the table `produtos`: id -> row
    next_id,       \* the next primary key the table assigns
    static_files,  \* the paths that exist under the working directory
    persisted,     \* history: id -> the image bytes the last create/edit wrote
    client_cache,  \* the HTTP cache of the client: id -> the image and ETag it holds
    optimiser,     \* a run of _optimize_image_bytes taken one loop pass at a time
    index_read,    \* a GET / that has read the product count and not yet the page
    resp           \* the last request handled and its response

vars == <<db, next_id, static_files, persisted, client_cache, optimiser, index_read, resp>>

-----------------------------------------------------------------------------
(* Bounds of the model *)

\* the table holds at most this many rows (ids 1..MaxProdutos)
MaxProdutos == 2

\* the pagination specification starts from 0..MaxAtivos active products
MaxAtivos == 25

-----------------------------------------------------------------------------
(* Python values *)

\* None where a byte string or a text is expected
None == <<-1>>

\* None where a MIME type (a whole string) is expected
NoMime == "None"

\* Python truthiness of an Optional[bytes] / Optional[str]
Truthy(x) == x /= None /\ x /= <<>>

\* bytes.startswith / str.startswith
StartsWith(s, prefix) ==
    /\ Len(s) >= Len(prefix)
    /\ SubSeq(s, 1, Len(prefix)) = prefix

RECURSIVE LStrip(_, _)
\* str.lstrip(ch)
LStrip(s, ch) ==
    IF s /= <<>> /\ Head(s) = ch THEN LStrip(Tail(s), ch) ELSE s

RECURSIVE RStrip(_, _)
\* str.rstrip(ch)
RStrip(s, ch) ==
    IF s /= <<>> /\ s[Len(s)] = ch THEN RStrip(SubSeq(s, 1, Len(s) - 1), ch) ELSE s

\* str.strip(ch)
Strip(s, ch) == RStrip(LStrip(s, ch), ch)

Max2(a, b) == IF a >= b THEN a ELSE b
Min2(a, b) == IF a <= b THEN a ELSE b

\* str(n) for a non-negative integer, as characters
RECURSIVE IntToStr(_)
IntToStr(n) ==
    LET digit(d) == <<"0", "1", "2", "3", "4", "5", "6", "7", "8", "9">>[d + 1]
    IN  IF n < 10 THEN <<digit(n)>> ELSE IntToStr(n \div 10) \o <<digit(n % 10)>>

\* two hexadecimal characters of one byte
HexByte(b) ==
    LET hx(d) == <<"0", "1", "2", "3", "4", "5", "6", "7",
                   "8", "9", "a", "b", "c", "d", "e", "f">>[d + 1]
    IN  <<hx(b \div 16), hx(b % 16)>>

RECURSIVE HexOf(_)
HexOf(data) == IF data = <<>> THEN <<>> ELSE HexByte(Head(data)) \o HexOf(Tail(data))

\* hashlib.sha256(data).hexdigest(): an ideal (collision-free) digest, written
\* in hexadecimal characters; the model's digest of a byte string is the
\* hexadecimal writing of the string itself, so distinct byte strings have
\* distinct digests and a digest never holds a double quote.
sha256_hexdigest(data) == HexOf(data)

-----------------------------------------------------------------------------
(* Images: signatures, the Pillow codec and the upload optimiser *)

ALLOWED_MIME == {"image/png", "image/jpeg"}

\* upload limit in bytes; read from the environment (MAX_IMAGE_BYTES), the model
\* runs with a limit of 24 bytes
MAX_IMAGE_BYTES == 24

\* target of the optimiser in bytes; read from the environment
\* (TARGET_IMAGE_BYTES), the model runs with a target of 16 bytes
TARGET_IMAGE_BYTES == 16

\* longest side after the first resize; environment IMAGE_MAX_DIM, default 1200
IMAGE_MAX_DIM == 1200

\* the optimiser stops shrinking at this longest side
min_dim == 320

_PNG_MAGIC == <<137, 80, 78, 71, 13, 10, 26, 10>>
_JPG_MAGIC == <<255, 216, 255>>

\* "GIF89a": a format Pillow reads and the application does not accept
GIF_MAGIC == <<71, 73, 70, 56, 57, 97>>

_detect_image_mime_lenient(data) ==
    IF StartsWith(data, _PNG_MAGIC) THEN "image/png"
    ELSE IF StartsWith(data, _JPG_MAGIC) THEN "image/jpeg"
    ELSE "application/octet-stream"

_detect_image_mime(data) ==
    IF StartsWith(data, _PNG_MAGIC) THEN "image/png"
    ELSE IF StartsWith(data, _JPG_MAGIC) THEN "image/jpeg"
    ELSE NoMime

\* The container both codecs write in the model: the signature, then a
\* five-byte header (width and height big-endian on two bytes each, one byte
\* that is 1 when the picture has an alpha channel), then the picture data.
ImageHeader(w, h, alpha) ==
    <<w \div 256, w % 256, h \div 256, h % 256, IF alpha THEN 1 ELSE 0>>

Scan(n) == [i \in 1..n |-> 0]

\* Image.open(io.BytesIO(data)) followed by ImageOps.exif_transpose: the
\* decoded picture, or ok = FALSE when Pillow cannot identify the data.
\* Pillow identifies the format from the data, whatever type was declared.
Image_open(data) ==
    LET magic == IF StartsWith(data, _PNG_MAGIC) THEN _PNG_MAGIC
                 ELSE IF StartsWith(data, _JPG_MAGIC) THEN _JPG_MAGIC
                 ELSE IF StartsWith(data, GIF_MAGIC) THEN GIF_MAGIC
                 ELSE <<>>
        rest  == SubSeq(data, Len(magic) + 1, Len(data))
    IN  IF magic = <<>> \/ Len(rest) < 5 THEN [ok |-> FALSE]
        ELSE LET w == rest[1] * 256 + rest[2]
                 h == rest[3] * 256 + rest[4]
             IN  IF w < 1 \/ h < 1 THEN [ok |-> FALSE]
                 ELSE [ok |-> TRUE, w |-> w, h |-> h, alpha |-> rest[5] = 1]

_has_alpha(img) == img.alpha

\* int(x * scale) for scale = num / den
ScaleInt(x, num, den) == (x * num) \div den

_resize_if_needed(img, max_dim) ==
    LET longest == Max2(img.w, img.h)
    IN  IF max_dim <= 0 \/ longest <= max_dim THEN img
        ELSE [img EXCEPT !.w = Max2(1, ScaleInt(img.w, max_dim, longest)),
                         !.h = Max2(1, ScaleInt(img.h, max_dim, longest))]

\* img.save(buf, format="JPEG", quality=q): the size of the picture data grows
\* with the pixel count and the quality
JpegSave(img, q) ==
    _JPG_MAGIC \o ImageHeader(img.w, img.h, FALSE)
               \o Scan((img.w * img.h * q) \div 1000000)

RECURSIVE JpegSearch(_, _, _, _, _)
\* the binary search of _encode_jpeg_under_target; best = None until one fits
JpegSearch(img, target_bytes, low, high, best) ==
    IF low > high THEN best
    ELSE LET q    == (low + high) \div 2
             data == JpegSave(img, q)
         IN  IF Len(data) <= target_bytes
             THEN JpegSearch(img, target_bytes, q + 1, high, data)
             ELSE JpegSearch(img, target_bytes, low, q - 1, best)

_encode_jpeg_under_target(img, target_bytes) ==
    LET best == JpegSearch(img, target_bytes, 35, 90, None)
    IN  IF best /= None THEN best ELSE JpegSave(img, 35)

_encode_gif(img) ==
    GIF_MAGIC \o ImageHeader(img.w, img.h, TRUE)
              \o Scan((img.w * img.h) \div 20000)

_encode_png(img) ==
    _PNG_MAGIC \o ImageHeader(img.w, img.h, TRUE)
               \o Scan((img.w * img.h) \div 20000)

LoopPassResizeLost(img, alpha) ==
    LET out_bytes == IF alpha THEN _encode_png(img)
                     ELSE _encode_jpeg_under_target(img, TARGET_IMAGE_BYTES)
        out_mime  == IF alpha THEN "image/png" ELSE "image/jpeg"
    IN  IF Len(out_bytes) <= TARGET_IMAGE_BYTES \/ Max2(img.w, img.h) <= min_dim
        THEN [returned |-> TRUE, out_bytes |-> out_bytes, out_mime |-> out_mime]
        ELSE [returned |-> FALSE, img |-> img]

\* One pass of the `while True` loop of _optimize_image_bytes on the image
\* img: returned = TRUE with the bytes and the type the pass returns, or
\* returned = FALSE with the image the next pass works on (each side scaled
\* by 0.90, not below 1).
LoopPass(img, alpha) ==
    LET out_bytes == IF alpha THEN _encode_png(img)
                     ELSE _encode_jpeg_under_target(img, TARGET_IMAGE_BYTES)
        out_mime  == IF alpha THEN "image/png" ELSE "image/jpeg"
    IN  IF Len(out_bytes) <= TARGET_IMAGE_BYTES
        THEN [returned |-> TRUE, out_bytes |-> out_bytes, out_mime |-> out_mime]
        ELSE IF Max2(img.w, img.h) <= min_dim
        THEN [returned |-> TRUE, out_bytes |-> out_bytes, out_mime |-> out_mime]
        ELSE [returned |-> FALSE,
              img |-> [img EXCEPT !.w = Max2(1, ScaleInt(img.w, 90, 100)),
                                  !.h = Max2(1, ScaleInt(img.h, 90, 100))]]

RECURSIVE OptimizeLoop(_, _)
\* the `while True` loop of _optimize_image_bytes, run to its return
OptimizeLoop(img, alpha) ==
    LET pass == LoopPass(img, alpha)
    IN  IF pass.returned
        THEN [status |-> 200, data |-> pass.out_bytes, mime |-> pass.out_mime]
        ELSE OptimizeLoop(pass.img, alpha)

_optimize_image_bytes(data, mime) ==
    LET opened == Image_open(data)
    IN  IF ~opened.ok THEN [status |-> 400]
        ELSE LET img == _resize_if_needed(opened, IMAGE_MAX_DIM)
             IN  OptimizeLoop(img, _has_alpha(img))

\* An uploaded file: [filename, content_type, data]; NoFile when the form
\* has no such part.
NoFile == [filename |-> "", content_type |-> "", data |-> <<>>, present |-> FALSE]

_read_image_upload_unlimited(file) ==
    IF ~file.present \/ file.filename = "" THEN [status |-> 400]
    ELSE IF file.content_type \notin ALLOWED_MIME THEN [status |-> 400]
    ELSE IF file.data = <<>> THEN [status |-> 400]
    ELSE IF _detect_image_mime(file.data) = NoMime THEN [status |-> 400]
    ELSE _optimize_image_bytes(file.data, _detect_image_mime(file.data))

_read_image_upload_unsigned(file) ==
    IF ~file.present \/ file.filename = "" THEN [status |-> 400]
    ELSE IF file.content_type \notin ALLOWED_MIME THEN [status |-> 400]
    ELSE IF file.data = <<>> THEN [status |-> 400]
    ELSE IF Len(file.data) > MAX_IMAGE_BYTES THEN [status |-> 413]
    ELSE _optimize_image_bytes(file.data, file.content_type)

_read_image_upload(file) ==
    IF ~file.present \/ file.filename = "" THEN [status |-> 400]
    ELSE IF file.content_type \notin ALLOWED_MIME THEN [status |-> 400]
    ELSE IF file.data = <<>> THEN [status |-> 400]
    ELSE IF Len(file.data) > MAX_IMAGE_BYTES THEN [status |-> 413]
    ELSE IF _detect_image_mime(file.data) = NoMime THEN [status |-> 400]
    ELSE _optimize_image_bytes(file.data, _detect_image_mime(file.data))

-----------------------------------------------------------------------------
(* The product table and the queries of module crud *)

\* A row of `produtos` (src/models.py); descricao, criado_em and atualizado_em
\* are carried by no handler modelled here and are left out.
Row(nome, valor, url, mime, bytes, sha, ativo) ==
    [nome |-> nome, valor |-> valor, imagem_url |-> url, imagem_mime |-> mime,
     imagem_bytes |-> bytes, imagem_sha256 |-> sha, ativo |-> ativo]

RECURSIVE OrderDesc(_)
\* the ids of S, largest first (ORDER BY ... id DESC)
OrderDesc(S) ==
    IF S = {} THEN <<>>
    ELSE LET m == CHOOSE x \in S : \A y \in S : y <= x
         IN  <<m>> \o OrderDesc(S \ {m})

get_produtos(d) == OrderDesc(DOMAIN d)

get_produtos_ativos(d) == OrderDesc({i \in DOMAIN d : d[i].ativo})

count_produtos_ativos(d) == Cardinality({i \in DOMAIN d : d[i].ativo})

\* OFFSET (page - 1) * page_size LIMIT page_size
get_produtos_ativos_paginados(d, page, page_size) ==
    LET all   == get_produtos_ativos(d)
        first == (page - 1) * page_size + 1
        last  == Min2(Len(all), page * page_size)
    IN  IF first > last THEN <<>> ELSE SubSeq(all, first, last)

\* the lookup by primary key; Found(d, id) tells whether it returned a row
Found(d, id) == id \in DOMAIN d
get_produto(d, id) == d[id]

\* INSERT: bytes, MIME and digest are written together; the new row is active
create_produto(d, id, nome, valor, imagem_bytes, imagem_mime) ==
    [i \in DOMAIN d \cup {id} |->
        IF i = id
        THEN Row(nome, valor, None, imagem_mime, imagem_bytes,
                 sha256_hexdigest(imagem_bytes), TRUE)
        ELSE d[i]]

update_produto_stale_hash(d, id, nome, valor, imagem_bytes, imagem_mime) ==
    IF ~Found(d, id) THEN d
    ELSE IF imagem_bytes = None
    THEN [d EXCEPT ![id].nome = nome, ![id].valor = valor]
    ELSE [d EXCEPT ![id].nome = nome, ![id].valor = valor,
                   ![id].imagem_bytes = imagem_bytes,
                   ![id].imagem_mime = imagem_mime]

\* UPDATE: name and price always, the image only when new bytes are given;
\* an unknown id changes nothing
update_produto(d, id, nome, valor, imagem_bytes, imagem_mime) ==
    IF ~Found(d, id) THEN d
    ELSE IF imagem_bytes = None
    THEN [d EXCEPT ![id].nome = nome, ![id].valor = valor]
    ELSE [d EXCEPT ![id].nome = nome, ![id].valor = valor,
                   ![id].imagem_bytes = imagem_bytes,
                   ![id].imagem_mime = imagem_mime,
                   ![id].imagem_sha256 = sha256_hexdigest(imagem_bytes)]

\* soft delete: the row stays and its active flag is cleared
delete_produto(d, id) ==
    IF ~Found(d, id) THEN d ELSE [d EXCEPT ![id].ativo = FALSE]

-----------------------------------------------------------------------------
(* Image reference resolution *)

Chars_media      == <<"/", "m", "e", "d", "i", "a", "/", "p", "r", "o", "d", "u", "t", "o", "/">>
Chars_uploads    == <<"/", "u", "p", "l", "o", "a", "d", "s", "/">>
Chars_images     == <<"/", "i", "m", "a", "g", "e", "s", "/">>
Chars_static     == <<"s", "t", "a", "t", "i", "c">>
PLACEHOLDER      == <<"/", "s", "t", "a", "t", "i", "c", "/", "i", "m", "a", "g", "e", "s", "/",
                      "p", "l", "a", "c", "e", "h", "o", "l", "d", "e", "r", ".", "p", "n", "g">>

\* os.path.join("static", rel) for a relative rel
PathJoinStatic(rel) == Chars_static \o <<"/">> \o rel

\* os.path.exists
PathExists(path) == path \in static_files

_produto_image_url_verbatim(id, produto) ==
    IF Truthy(produto.imagem_bytes) THEN Chars_media \o IntToStr(id)
    ELSE IF Truthy(produto.imagem_url) THEN produto.imagem_url
    ELSE PLACEHOLDER

_produto_image_url(id, produto) ==
    IF Truthy(produto.imagem_bytes) THEN Chars_media \o IntToStr(id)
    ELSE LET url == produto.imagem_url
         IN  IF Truthy(url)
             THEN IF StartsWith(url, Chars_uploads) \/ StartsWith(url, Chars_images)
                  THEN IF PathExists(PathJoinStatic(LStrip(url, "/")))
                       THEN url
                       ELSE PLACEHOLDER
                  ELSE url
             ELSE PLACEHOLDER

\* what a template or the JSON serialiser sees of a product: the fetched
\* record with imagem_url replaced by the resolved reference
View(d, id) ==
    [id |-> id, nome |-> d[id].nome, valor |-> d[id].valor,
     imagem_url |-> _produto_image_url(id, d[id]), ativo |-> d[id].ativo]

Views(d, ids) == [k \in 1..Len(ids) |-> View(d, ids[k])]

-----------------------------------------------------------------------------
(* Pagination of the home page *)

HOME_PAGE_SIZE == 10

\* the entry of the pagination list that stands for None (an ellipsis)
Ellipsis == 0

\* list(range(a, b + 1))
Range(a, b) == IF b < a THEN <<>> ELSE [k \in 1..(b - a + 1) |-> a + k - 1]

_build_pagination_items_early_gap(current_page, total_pages) ==
    IF total_pages <= 7 THEN Range(1, total_pages)
    ELSE LET window_start == Max2(2, current_page - 1)
             window_end   == Min2(total_pages - 1, current_page + 1)
         IN  <<1>>
             \o (IF window_start >= 2 THEN <<Ellipsis>> ELSE <<>>)
             \o Range(window_start, window_end)
             \o (IF window_end < total_pages - 1 THEN <<Ellipsis>> ELSE <<>>)
             \o <<total_pages>>

_build_pagination_items(current_page, total_pages) ==
    IF total_pages <= 7 THEN Range(1, total_pages)
    ELSE LET window_start == Max2(2, current_page - 1)
             window_end   == Min2(total_pages - 1, current_page + 1)
         IN  <<1>>
             \o (IF window_start > 2 THEN <<Ellipsis>> ELSE <<>>)
             \o Range(window_start, window_end)
             \o (IF window_end < total_pages - 1 THEN <<Ellipsis>> ELSE <<>>)
             \o <<total_pages>>

\* math.ceil(a / b) for a >= 0, b > 0
Ceil(a, b) == (a + b - 1) \div b

total_paginas_floor(total_produtos) ==
    Max2(1, total_produtos \div HOME_PAGE_SIZE)

\* max(1, math.ceil(total_produtos / HOME_PAGE_SIZE))
total_paginas_of(total_produtos) ==
    Max2(1, Ceil(total_produtos, HOME_PAGE_SIZE))

\* Query(1, ge=1): the framework refuses a page below 1 before the handler runs
PageQueryValid(page) == page >= 1

-----------------------------------------------------------------------------
(* Requests *)

ADMIN_USER     == "admin"
ADMIN_PASSWORD == "troque_essa_senha"

\* the HTTP Basic credentials of a request; present = FALSE when the request
\* has no Authorization header
Credentials(present, username, password) ==
    [present |-> present, username |-> username, password |-> password]

NoCred    == Credentials(FALSE, "", "")
GoodCred  == Credentials(TRUE, ADMIN_USER, ADMIN_PASSWORD)
WrongUser == Credentials(TRUE, "root", ADMIN_PASSWORD)
WrongPass == Credentials(TRUE, ADMIN_USER, "1234")
WrongBoth == Credentials(TRUE, "root", "1234")

\* A session token as the specification describes it (a payload of username
\* and expiration, and a keyed hash over the payload), carried in a cookie.
\* expired tells whether its expiration lies before the time of the request,
\* signed whether its keyed hash is the one the admin secret gives.
Token(username, expired, signed) ==
    [token |-> TRUE, username |-> username, expired |-> expired, signed |-> signed]

NoCookie     == [token |-> FALSE]
ExpiredToken == Token(ADMIN_USER, TRUE, TRUE)
FreshToken   == Token(ADMIN_USER, FALSE, TRUE)

\* the pairs of Authorization header and cookie tried on GET /admin and on
\* the delete form
AdminAuths ==
    { <<NoCred, NoCookie>>, <<NoCred, ExpiredToken>>, <<NoCred, FreshToken>>,
      <<GoodCred, NoCookie>>, <<GoodCred, ExpiredToken>>,
      <<WrongUser, NoCookie>>, <<WrongPass, ExpiredToken>>, <<WrongBoth, NoCookie>> }

\* the pairs tried on the create and edit forms
FormAuths ==
    { <<GoodCred, NoCookie>>, <<NoCred, FreshToken>>,
      <<WrongUser, NoCookie>>, <<WrongPass, ExpiredToken>> }

\* secrets.compare_digest on two strings
compare_digest(a, b) == a = b

_auth_admin_user_only(credentials) ==
    compare_digest(credentials.username, ADMIN_USER)

_auth_admin_either(credentials) ==
    \/ compare_digest(credentials.username, ADMIN_USER)
    \/ compare_digest(credentials.password, ADMIN_PASSWORD)

\* TRUE when the guard lets the request through, FALSE when it raises 401
_auth_admin(credentials) ==
    LET correct_username == compare_digest(credentials.username, ADMIN_USER)
        correct_password == compare_digest(credentials.password, ADMIN_PASSWORD)
    IN  correct_username /\ correct_password

\* Depends(_auth_admin) over Depends(HTTPBasic()): a request without an
\* Authorization header is refused by HTTPBasic before _auth_admin runs
Admitted(cred) == cred.present /\ _auth_admin(cred)

Upload(filename, content_type, data) ==
    [filename |-> filename, content_type |-> content_type, data |-> data,
     present |-> TRUE]

\* a 300x200 PNG with an alpha channel
FilePngAlpha == Upload("a.png", "image/png",
                       _PNG_MAGIC \o ImageHeader(300, 200, TRUE) \o Scan(1))
\* a 400x300 JPEG photograph
FileJpeg == Upload("b.jpg", "image/jpeg",
                   _JPG_MAGIC \o ImageHeader(400, 300, FALSE) \o Scan(2))
\* a GIF sent as image/png
FileGifAsPng == Upload("c.png", "image/png",
                       GIF_MAGIC \o ImageHeader(100, 100, FALSE))
\* the same, larger than MAX_IMAGE_BYTES
FileGifAsPngBig == Upload("d.png", "image/png",
                          GIF_MAGIC \o ImageHeader(100, 100, FALSE)
                                    \o Scan(MAX_IMAGE_BYTES))
\* a GIF sent as a GIF
FileGif == Upload("e.gif", "image/gif", GIF_MAGIC \o ImageHeader(100, 100, FALSE))
\* an empty file
FileEmpty == Upload("f.png", "image/png", <<>>)
\* a part without a file name, as a form sends when no file is chosen
FileNoName == Upload("", "image/png", GIF_MAGIC)
\* a PNG signature with nothing Pillow can read after it
FileTruncated == Upload("g.png", "image/png", _PNG_MAGIC \o <<0, 0>>)

Files == { FilePngAlpha, FileJpeg, FileGifAsPng, FileGifAsPngBig, FileGif,
           FileEmpty, FileNoName, FileTruncated }

\* the name and price an admin form carries (price in cents)
Forms == { <<"B", 2500>> }

Ids == 1..(MaxProdutos + 1)

Pages == {0, 1, 2}

DQUOTE == "\""

\* the values of the If-None-Match header tried on the product `id`
InmChoices(id) ==
    {None, <<>>, <<DQUOTE, "0", "0", DQUOTE>>}
    \cup (IF Found(db, id) /\ Truthy(db[id].imagem_bytes)
          THEN LET e == sha256_hexdigest(db[id].imagem_bytes)
               IN  {e, <<DQUOTE>> \o e \o <<DQUOTE>>, <<DQUOTE>> \o e}
          ELSE {})
    \cup (IF client_cache.on /\ id \in DOMAIN client_cache.held
          THEN {client_cache.held[id].etag}
          ELSE {})

-----------------------------------------------------------------------------
(* Public handlers *)

\* a client that keeps no cache (it never stores a response), and the cache
\* of a browser before its first request
NoCache    == [on |-> FALSE, held |-> [i \in {} |-> <<>>]]
EmptyCache == [on |-> TRUE, held |-> [i \in {} |-> <<>>]]

\* no run of the optimiser is being followed pass by pass
NotRunning == [pc |-> "idle"]

\* no GET / is between its two reads
NoRead == [pc |-> "idle"]

\* what a handler that runs as one step leaves alone: the client's cache
\* (the media endpoint excepted), the optimiser's stepwise run and the
\* GET / in flight
Elsewhere == UNCHANGED <<optimiser, index_read>>

Untouched ==
    /\ UNCHANGED <<db, next_id, static_files, persisted, client_cache>>
    /\ Elsewhere

\* the ids in a list of products
IdSet(ids) == {ids[k] : k \in 1..Len(ids)}

\* `p.imagem_url = _produto_image_url(p)` on the records a handler fetched:
\* the table as the objects of the request's session hold it afterwards
AssignImageUrl(d, ids) ==
    [i \in DOMAIN d |->
        IF i \in ids THEN [d[i] EXCEPT !.imagem_url = _produto_image_url(i, d[i])]
        ELSE d[i]]

get_db_commit(d, session) == session

\* The dependency get_db around a handler that wrote to its records and
\* called neither flush nor commit: the session of SessionLocal
\* (autoflush = False, autocommit = False) sends nothing to the database, and
\* `finally: db.close()` drops what it holds. d is the table, session the
\* table as the session's objects have it; the result is the table afterwards.
get_db(d, session) == d

\* a handler that only reads the table through its session
ReadOnly(session) ==
    /\ db' = get_db(db, session)
    /\ UNCHANGED <<next_id, static_files, persisted, client_cache>>
    /\ Elsewhere

\* GET /?page=
index(page) ==
    IF ~PageQueryValid(page)
    THEN /\ resp' = [endpoint |-> "index", page |-> page, status |-> 422]
         /\ Untouched
    ELSE LET total_produtos == count_produtos_ativos(db)
             total_paginas  == total_paginas_of(total_produtos)
             pagina_atual   == Min2(page, total_paginas)
             produtos       == get_produtos_ativos_paginados(db, pagina_atual, HOME_PAGE_SIZE)
         IN  /\ resp' = [endpoint |-> "index", page |-> page, status |-> 200,
                         produtos |-> Views(db, produtos),
                         pagina_atual |-> pagina_atual,
                         total_paginas |-> total_paginas,
                         total_produtos |-> total_produtos,
                         paginacao |-> _build_pagination_items(pagina_atual, total_paginas)]
             /\ ReadOnly(AssignImageUrl(db, IdSet(produtos)))

\* GET /produto/{produto_id}
produto_detail(produto_id) ==
    /\ resp' =
        IF ~Found(db, produto_id)
        THEN [endpoint |-> "produto_detail", produto_id |-> produto_id, status |-> 404]
        ELSE [endpoint |-> "produto_detail", produto_id |-> produto_id, status |-> 200,
              p |-> View(db, produto_id)]
    /\ ReadOnly(AssignImageUrl(db, {produto_id}))

ApiProdutosAll(d) == Views(d, get_produtos(d))

\* the JSON array GET /api/produtos answers on the table d
ApiProdutosBody(d) == Views(d, get_produtos_ativos(d))

\* GET /api/produtos
api_produtos ==
    /\ resp' = [endpoint |-> "api_produtos", status |-> 200,
                body |-> ApiProdutosBody(db)]
    /\ ReadOnly(AssignImageUrl(db, IdSet(get_produtos_ativos(db))))

\* what the driver hands back for a bytea column: bytes or a memoryview
Raw(kind, data) == [kind |-> kind, data |-> data]

RECURSIVE UntilNul(_)
UntilNul(data) ==
    IF data = <<>> \/ Head(data) = 0 THEN <<>> ELSE <<Head(data)>> \o UntilNul(Tail(data))

to_bytes_cstr(raw) == UntilNul(raw.data)

\* raw.tobytes() for a memoryview, bytes(raw) otherwise: both copy the bytes
to_bytes(raw) ==
    IF raw.kind = "memoryview" THEN raw.data ELSE raw.data

ETagOfName(produto, img_bytes) == <<produto.nome>>

\* the entity tag compared with If-None-Match and sent as ETag
ETagOf(produto, img_bytes) == sha256_hexdigest(img_bytes)

InmMatchesExact(inm, etag) == Truthy(inm) /\ inm = etag

\* `inm and inm.strip('"') == etag`
InmMatches(inm, etag) == Truthy(inm) /\ Strip(inm, DQUOTE) = etag

MediaResponse(produto_id, inm, kind) ==
    LET base == [endpoint |-> "media_produto", produto_id |-> produto_id, inm |-> inm]
    IN  IF ~Found(db, produto_id) \/ ~Truthy(get_produto(db, produto_id).imagem_bytes)
        THEN base @@ [status |-> 404]
        ELSE LET produto   == get_produto(db, produto_id)
                 img_bytes == to_bytes(Raw(kind, produto.imagem_bytes))
                 real_mime == _detect_image_mime(img_bytes)
                 etag      == ETagOf(produto, img_bytes)
             IN  IF real_mime = NoMime THEN base @@ [status |-> 500]
                 ELSE IF InmMatches(inm, etag)
                 THEN base @@ [status |-> 304, body |-> <<>>]
                 ELSE base @@ [status |-> 200, body |-> img_bytes,
                               media_type |-> real_mime,
                               etag |-> <<DQUOTE>> \o etag \o <<DQUOTE>>]

\* The client's cache after a response of the media endpoint: a client that
\* keeps a cache stores the body and the ETag of a 200.
Received(cache, produto_id, response) ==
    IF cache.on /\ response.status = 200
    THEN [cache EXCEPT !.held = (produto_id :> [etag |-> response.etag,
                                                body |-> response.body]) @@ @]
    ELSE cache

\* GET /media/produto/{produto_id}
media_produto(produto_id, inm) ==
    /\ \E kind \in {"bytes", "memoryview"} :
           resp' = MediaResponse(produto_id, inm, kind)
    /\ client_cache' = Received(client_cache, produto_id, resp')
    /\ db' = get_db(db, db)
    /\ UNCHANGED <<next_id, static_files, persisted>>
    /\ Elsewhere

-----------------------------------------------------------------------------
(* The WhatsApp link (src/utils.py) *)

\* Characters outside ASCII are written by the name of their code point:
\* "u00e1" (a acute), "u00e7" (c cedilla), "u2022" (bullet), "u2192" (arrow).
Chars_wa_me ==
    <<"h", "t", "t", "p", "s", ":", "/", "/", "w", "a", ".", "m", "e", "/">>

WHATSAPP_NUMERO ==
    <<"5", "5", "6", "1", "9", "8", "5", "7", "0", "0", "2", "7", "8">>

Chars_text_param ==
    <<"?", "t", "e", "x", "t", "=">>

\* the greeting, the label of the total and the closing lines of the message
Chars_greeting ==
    <<"O", "l", "u00e1", "!", " ", "T", "e", "n", "h", "o", " ", "i", "n", "t", "e",
      "r", "e", "s", "s", "e", " ", "n", "o", "s", " ", "s", "e", "g", "u", "i", "n",
      "t", "e", "s", " ", "i", "t", "e", "n", "s", " ", "d", "a", " ", "C", "a", "n",
      "t", "o", "n", "e", "i", "r", "a", " ", "F", "u00e1", "c", "i", "l", ":", "\n",
      "\n">>

Chars_total ==
    <<"\n", "T", "o", "t", "a", "l", " ", "e", "s", "t", "i", "m", "a", "d", "o", ":",
      " ", "R", "$", " ">>

Chars_closing ==
    <<"\n", "\n", "P", "o", "d", "e", " ", "m", "e", " ", "p", "a", "s", "s", "a", "r",
      " ", "o", "r", "u00e7", "a", "m", "e", "n", "t", "o", " ", "c", "o", "m", " ",
      "f", "r", "e", "t", "e", " ", "e", " ", "p", "r", "a", "z", "o", " ", "d", "e",
      " ", "e", "n", "t", "r", "e", "g", "a", "?", "\n", "O", "b", "r", "i", "g", "a",
      "d", "o", "!">>

\* the characters urllib.parse.quote_plus leaves as they are: the ASCII
\* letters and digits and "_", ".", "-", "~"
Unreserved ==
    {"a", "b", "c", "d", "e", "f", "g", "h", "i", "j", "k", "l", "m", "n", "o", "p", "q",
     "r", "s", "t", "u", "v", "w", "x", "y", "z", "A", "B", "C", "D", "E", "F", "G", "H",
     "I", "J", "K", "L", "M", "N", "O", "P", "Q", "R", "S", "T", "U", "V", "W", "X", "Y",
     "Z", "0", "1", "2", "3", "4", "5", "6", "7", "8", "9", "_", ".", "-", "~"}

\* the UTF-8 bytes of the reserved characters the messages are made of
Utf8(ch) ==
    CASE ch = "\n"    -> <<10>>
      [] ch = "!"     -> <<33>>
      [] ch = "$"     -> <<36>>
      [] ch = "&"     -> <<38>>
      [] ch = "/"     -> <<47>>
      [] ch = ":"     -> <<58>>
      [] ch = "?"     -> <<63>>
      [] ch = "u00e1" -> <<195, 161>>
      [] ch = "u00e7" -> <<195, 167>>
      [] ch = "u2022" -> <<226, 128, 162>>
      [] ch = "u2192" -> <<226, 134, 146>>

RECURSIVE PercentBytes(_)
\* "%XX", with upper-case hexadecimal digits, for each byte
PercentBytes(bytes) ==
    LET hx(d) == <<"0", "1", "2", "3", "4", "5", "6", "7",
                   "8", "9", "A", "B", "C", "D", "E", "F">>[d + 1]
    IN  IF bytes = <<>> THEN <<>>
        ELSE <<"%", hx(Head(bytes) \div 16), hx(Head(bytes) % 16)>>
             \o PercentBytes(Tail(bytes))

RECURSIVE QuoteRange(_, _, _)
\* the encoding of text[lo..hi]: a space becomes "+", an unreserved
\* character stays, any other character becomes the percent-encoding of its
\* UTF-8 bytes
QuoteRange(text, lo, hi) ==
    IF lo > hi THEN <<>>
    ELSE IF lo = hi
    THEN (IF text[lo] = " " THEN <<"+">>
          ELSE IF text[lo] \in Unreserved THEN <<text[lo]>>
          ELSE PercentBytes(Utf8(text[lo])))
    ELSE LET mid == (lo + hi) \div 2
         IN  QuoteRange(text, lo, mid) \o QuoteRange(text, mid + 1, hi)

\* urllib.parse.quote_plus
quote_plus(text) == QuoteRange(text, 1, Len(text))

\* f"{x:.2f}" of an amount of money; the model counts amounts in cents
Fmt2(cents) ==
    LET a == IF cents < 0 THEN 0 - cents ELSE cents
    IN  (IF cents < 0 THEN <<"-">> ELSE <<>>)
        \o IntToStr(a \div 100) \o <<".">>
        \o IntToStr((a % 100) \div 10) \o IntToStr(a % 10)

\* Python values a JSON body decodes to: a list of cart items, or a dict
\* (of which iteration gives the keys, which are strings)
PyList(items) == [type |-> "list", elems |-> items]
PyDict(keys)  == [type |-> "dict", elems |-> [k \in 1..Len(keys) |-> [type |-> "str", value |-> keys[k]]]]

\* a cart item {"nome": ..., "quantidade": ..., "valor_unitario": ...}
Item(nome, quantidade, valor_unitario) ==
    [type |-> "dict", nome |-> nome, quantidade |-> quantidade,
     valor_unitario |-> valor_unitario]

\* the line of the message for one item
ItemLine(item) ==
    LET qtd      == item.quantidade
        valor_un == item.valor_unitario
        subtotal == qtd * valor_un
        str_qtd  == IF qtd < 0 THEN <<"-">> \o IntToStr(0 - qtd) ELSE IntToStr(qtd)
    IN  <<"u2022", " ">> \o str_qtd \o <<"x", " ">> \o item.nome
        \o <<" ", "-", " ", "R", "$", " ">> \o Fmt2(valor_un)
        \o <<"/", "u", "n", " ", "u2192", " ", "R", "$", " ">> \o Fmt2(subtotal)
        \o <<"\n">>

RECURSIVE ItemLines(_)
ItemLines(elems) ==
    IF elems = <<>> THEN <<>> ELSE ItemLine(Head(elems)) \o ItemLines(Tail(elems))

RECURSIVE Total(_)
Total(elems) ==
    IF elems = <<>> THEN 0
    ELSE Head(elems).quantidade * Head(elems).valor_unitario + Total(Tail(elems))

\* gerar_link_whatsapp(itens): the link, or raised = TRUE when the loop
\* subscripts an element that is a string (TypeError)
gerar_link_whatsapp(itens) ==
    IF itens.elems = <<>>
    THEN [raised |-> FALSE, url |-> Chars_wa_me \o WHATSAPP_NUMERO]
    ELSE IF \E k \in 1..Len(itens.elems) : itens.elems[k].type = "str"
    THEN [raised |-> TRUE]
    ELSE LET texto == Chars_greeting \o ItemLines(itens.elems)
                      \o Chars_total \o Fmt2(Total(itens.elems)) \o Chars_closing
         IN  [raised |-> FALSE,
              url |-> Chars_wa_me \o WHATSAPP_NUMERO \o Chars_text_param
                      \o quote_plus(texto)]

\* POST /api/whatsapp, `payload: dict`: the framework refuses a body that is
\* not a JSON object (422) before the handler runs; an exception in the
\* handler is answered 500
api_whatsapp(payload) ==
    /\ resp' =
        LET base == [endpoint |-> "api_whatsapp", payload |-> payload]
        IN  IF payload.type /= "dict" THEN base @@ [status |-> 422]
            ELSE LET link == gerar_link_whatsapp(payload)
                 IN  IF link.raised THEN base @@ [status |-> 500]
                     ELSE base @@ [status |-> 200, url |-> link.url]
    /\ Untouched

-----------------------------------------------------------------------------
(* Admin handlers *)

Unauthorized(endpoint, cred, cookie) ==
    [endpoint |-> endpoint, cred |-> cred, cookie |-> cookie, status |-> 401]

\* the products GET /admin lists on the table d
AdminPageProdutos(d) == Views(d, get_produtos(d))

\* GET /admin
admin_page(cred, cookie) ==
    /\ resp' =
        IF ~Admitted(cred) THEN Unauthorized("admin_page", cred, cookie)
        ELSE [endpoint |-> "admin_page", cred |-> cred, cookie |-> cookie,
              status |-> 200, produtos |-> AdminPageProdutos(db)]
    /\ ReadOnly(IF Admitted(cred) THEN AssignImageUrl(db, DOMAIN db) ELSE db)

\* POST /admin/produto
admin_create_produto(cred, cookie, nome, valor, imagem_arquivo) ==
    LET req  == [endpoint |-> "admin_create_produto", cred |-> cred, cookie |-> cookie,
                 nome |-> nome, valor |-> valor, imagem_arquivo |-> imagem_arquivo]
        read == _read_image_upload(imagem_arquivo)
    IN  IF ~Admitted(cred)
        THEN resp' = Unauthorized("admin_create_produto", cred, cookie) /\ Untouched
        ELSE IF ~imagem_arquivo.present
        THEN resp' = req @@ [status |-> 422] /\ Untouched
        ELSE IF read.status /= 200
        THEN resp' = req @@ [status |-> read.status] /\ Untouched
        ELSE /\ next_id <= MaxProdutos
             /\ db' = create_produto(db, next_id, nome, valor, read.data, read.mime)
             /\ next_id' = next_id + 1
             /\ persisted' = (next_id :> read.data) @@ persisted
             /\ resp' = req @@ [status |-> 303]
             /\ UNCHANGED <<static_files, client_cache>>
             /\ Elsewhere

\* POST /admin/produto/{produto_id}/delete
admin_delete_produto(cred, cookie, produto_id) ==
    IF ~Admitted(cred)
    THEN resp' = Unauthorized("admin_delete_produto", cred, cookie) /\ Untouched
    ELSE /\ db' = delete_produto(db, produto_id)
         /\ resp' = [endpoint |-> "admin_delete_produto", cred |-> cred, cookie |-> cookie,
                     produto_id |-> produto_id, status |-> 303]
         /\ UNCHANGED <<next_id, static_files, persisted, client_cache>>
         /\ Elsewhere

\* POST /admin/produto/{produto_id}/edit
admin_edit_produto(cred, cookie, produto_id, nome, valor, imagem_arquivo) ==
    LET req    == [endpoint |-> "admin_edit_produto", cred |-> cred, cookie |-> cookie,
                   produto_id |-> produto_id, nome |-> nome, valor |-> valor,
                   imagem_arquivo |-> imagem_arquivo]
        sent   == imagem_arquivo.present /\ imagem_arquivo.filename /= ""
        read   == _read_image_upload(imagem_arquivo)
        bytes  == IF sent THEN read.data ELSE None
        mime   == IF sent THEN read.mime ELSE NoMime
    IN  IF ~Admitted(cred)
        THEN resp' = Unauthorized("admin_edit_produto", cred, cookie) /\ Untouched
        ELSE IF sent /\ read.status /= 200
        THEN resp' = req @@ [status |-> read.status] /\ Untouched
        ELSE /\ db' = update_produto(db, produto_id, nome, valor, bytes, mime)
             /\ persisted' = IF sent /\ Found(db, produto_id)
                             THEN (produto_id :> read.data) @@ persisted
                             ELSE persisted
             /\ resp' = req @@ [status |-> 303]
             /\ UNCHANGED <<next_id, static_files, client_cache>>
             /\ Elsewhere

-----------------------------------------------------------------------------
(* _optimize_image_bytes, one loop pass at a time *)

\* the call _optimize_image_bytes(data, mime) up to the loop: Pillow opens
\* the data (or the call raises 400), the image is resized to IMAGE_MAX_DIM
\* and the output format is decided
optimiser_open(data, mime) ==
    /\ optimiser.pc = "idle"
    /\ optimiser' =
        LET opened == Image_open(data)
        IN  IF ~opened.ok THEN [pc |-> "raised", data |-> data, status |-> 400]
            ELSE LET img == _resize_if_needed(opened, IMAGE_MAX_DIM)
                 IN  [pc |-> "loop", data |-> data, mime |-> mime,
                      img |-> img, alpha |-> _has_alpha(img)]
    /\ UNCHANGED <<db, next_id, static_files, persisted, client_cache, index_read, resp>>

\* one pass of the loop
optimiser_pass ==
    /\ optimiser.pc = "loop"
    /\ optimiser' =
        LET pass == LoopPass(optimiser.img, optimiser.alpha)
        IN  IF pass.returned
            THEN [optimiser EXCEPT !.pc = "returned"]
                   @@ [out_bytes |-> pass.out_bytes, out_mime |-> pass.out_mime]
            ELSE [optimiser EXCEPT !.img = pass.img]
    /\ UNCHANGED <<db, next_id, static_files, persisted, client_cache, index_read, resp>>

-----------------------------------------------------------------------------
(* _build_pagination_items called on its own *)

\* the call _build_pagination_items(current_page, total_pages) and its result
build_pagination(current_page, total_pages) ==
    /\ resp' = [endpoint |-> "_build_pagination_items",
                current_page |-> current_page, total_pages |-> total_pages,
                items |-> _build_pagination_items(current_page, total_pages)]
    /\ Untouched

-----------------------------------------------------------------------------
(* GET / taken read by read *)

\* The session of SessionLocal runs on the engine's default isolation level
\* (none is set in src/database.py; READ COMMITTED on PostgreSQL), in which
\* every statement sees what was committed before it started: the two reads
\* of index are two statements, and requests of other clients may commit
\* between them.

\* the first read of GET /?page=: crud.count_produtos_ativos(db)
index_count(page) ==
    /\ index_read.pc = "idle"
    /\ PageQueryValid(page)
    /\ index_read' = [pc |-> "counted", page |-> page,
                      total_produtos |-> count_produtos_ativos(db)]
    /\ UNCHANGED <<db, next_id, static_files, persisted, client_cache, optimiser, resp>>

\* the rest of the handler: the page is computed from the count read before
\* and read from the table as it is now
index_page ==
    /\ index_read.pc = "counted"
    /\ LET total_produtos == index_read.total_produtos
           total_paginas  == total_paginas_of(total_produtos)
           pagina_atual   == Min2(index_read.page, total_paginas)
           produtos       == get_produtos_ativos_paginados(db, pagina_atual, HOME_PAGE_SIZE)
       IN  /\ resp' = [endpoint |-> "index", page |-> index_read.page, status |-> 200,
                       produtos |-> Views(db, produtos),
                       pagina_atual |-> pagina_atual,
                       total_paginas |-> total_paginas,
                       total_produtos |-> total_produtos,
                       paginacao |-> _build_pagination_items(pagina_atual, total_paginas)]
           /\ db' = get_db(db, AssignImageUrl(db, IdSet(produtos)))
    /\ index_read' = NoRead
    /\ UNCHANGED <<next_id, static_files, persisted, client_cache, optimiser>>

-----------------------------------------------------------------------------
(* Specifications *)

\* rows written before this revision of the program ran
LegacyCorrupt  == Row("A", 1990, None, "image/png", GIF_MAGIC, None, TRUE)
LegacyLocalUrl == Row("A", 1990, Chars_uploads \o <<"a">>, NoMime, None, None, TRUE)
LegacyNoImage  == Row("A", 1990, None, NoMime, None, None, TRUE)

EmptyTable == [i \in {} |-> LegacyNoImage]

InitialTables ==
    {EmptyTable} \cup {(1 :> r) : r \in {LegacyCorrupt, LegacyLocalUrl, LegacyNoImage}}

NoResponse == [endpoint |-> "none", status |-> 0]

Init ==
    /\ db \in InitialTables
    /\ next_id = Cardinality(DOMAIN db) + 1
    /\ static_files = {}
    /\ persisted = [i \in {} |-> <<>>]
    /\ client_cache = NoCache
    /\ optimiser = NotRunning
    /\ index_read = NoRead
    /\ resp = NoResponse

\* a request the guard refuses is tried with one file and on one product
FilesFor(cred) == IF cred = GoodCred THEN Files \cup {NoFile} ELSE {FilePngAlpha}
IdsFor(cred)   == IF cred = GoodCred THEN Ids ELSE {1}

Next ==
    \/ \E page \in Pages : index(page)
    \/ \E id \in Ids : produto_detail(id)
    \/ api_produtos
    \/ \E id \in Ids : \E inm \in InmChoices(id) : media_produto(id, inm)
    \/ \E a \in AdminAuths : admin_page(a[1], a[2])
    \/ \E a \in FormAuths, f \in Forms : \E file \in FilesFor(a[1]) :
           admin_create_produto(a[1], a[2], f[1], f[2], file)
    \/ \E a \in AdminAuths : \E id \in IdsFor(a[1]) :
           admin_delete_produto(a[1], a[2], id)
    \/ \E a \in FormAuths, f \in Forms : \E id \in IdsFor(a[1]), file \in FilesFor(a[1]) :
           admin_edit_produto(a[1], a[2], id, f[1], f[2], file)

Spec == Init /\ [][Next]_vars

\* Pagination: the home page over tables of 0..MaxAtivos active products
\* (and possibly an inactive one), asked for pages around the valid range.
PagesPag == -1..4

TableOf(n, inactive) ==
    [i \in 1..(n + inactive) |->
        IF i <= n THEN LegacyNoImage ELSE [LegacyNoImage EXCEPT !.ativo = FALSE]]

InitPag ==
    /\ \E n \in 0..MaxAtivos, inactive \in {0, 1} : db = TableOf(n, inactive)
    /\ next_id = Cardinality(DOMAIN db) + 1
    /\ static_files = {}
    /\ persisted = [i \in {} |-> <<>>]
    /\ client_cache = NoCache
    /\ optimiser = NotRunning
    /\ index_read = NoRead
    /\ resp = NoResponse

NextPag == \E page \in PagesPag : index(page)

SpecPag == InitPag /\ [][NextPag]_vars

\* Image references: the detail page over one-row tables whose row has
\* every combination of stored bytes and imagem_url, with and without the
\* files the local URLs name.
Str_a == <<"a", ".", "p", "n", "g">>

UrlValues ==
    { None, <<>>,
      Chars_uploads \o Str_a,
      Chars_images \o Str_a,
      <<"/", "u", "p", "l", "o", "a", "d", "/">> \o Str_a,
      <<"h", "t", "t", "p", "s", ":", "/", "/", "c", "d", "n", "/">> \o Str_a }

UrlRows ==
    { Row("A", 1990, u, NoMime, b, None, TRUE) :
        u \in UrlValues, b \in {None, _JPG_MAGIC \o ImageHeader(10, 10, FALSE)} }

LocalFiles ==
    { Chars_static \o Chars_uploads \o Str_a, Chars_static \o Chars_images \o Str_a }

InitUrl ==
    /\ \E r \in UrlRows : db = (1 :> r)
    /\ next_id = 2
    /\ static_files \in SUBSET LocalFiles
    /\ persisted = [i \in {} |-> <<>>]
    /\ client_cache = NoCache
    /\ optimiser = NotRunning
    /\ index_read = NoRead
    /\ resp = NoResponse

NextUrl == \E id \in {1, 2} : produto_detail(id)

SpecUrl == InitUrl /\ [][NextUrl]_vars

\* Public requests: every public endpoint over tables of up to MaxProdutos
\* rows, with and without the file a local URL names.
StoredJpeg ==
    LET bytes == _JPG_MAGIC \o ImageHeader(10, 10, FALSE)
    IN  Row("A", 1990, None, "image/jpeg", bytes, sha256_hexdigest(bytes), TRUE)

PubRows ==
    { LegacyCorrupt, LegacyLocalUrl, StoredJpeg, [LegacyNoImage EXCEPT !.ativo = FALSE] }

\* the JSON bodies sent to POST /api/whatsapp: carts (lists of items) of
\* zero, one and two items, and objects
Payloads ==
    LET tela   == Item(<<"T", "e", "l", "a">>, 2, 1050)
        perfil == Item(<<"P", "e", "r", "f", "i", "l", " ", "L", "&", "U">>, 3, 999)
    IN  { PyList(<<>>),
          PyList(<<tela>>),
          PyList(<<tela, perfil>>),
          PyDict(<<>>),
          PyDict(<<"itens">>),
          PyDict(<<"nome", "quantidade", "valor_unitario">>) }

InitPub ==
    /\ \E n \in 0..MaxProdutos : db \in [1..n -> PubRows]
    /\ next_id = Cardinality(DOMAIN db) + 1
    /\ static_files \in SUBSET {Chars_static \o Chars_uploads \o <<"a">>}
    /\ persisted = [i \in {} |-> <<>>]
    /\ client_cache = NoCache
    /\ optimiser = NotRunning
    /\ index_read = NoRead
    /\ resp = NoResponse

NextPub ==
    \/ \E page \in Pages : index(page)
    \/ \E id \in Ids : produto_detail(id)
    \/ api_produtos
    \/ \E id \in Ids : \E inm \in InmChoices(id) : media_produto(id, inm)
    \/ \E payload \in Payloads : api_whatsapp(payload)

SpecPub == InitPub /\ [][NextPub]_vars

\* Admin forms: create and edit by the administrator, with prices on both
\* sides of zero and with files that pass or fail each test of the upload,
\* over tables that hold no image yet.
FormsPrice == { <<"B", 2500>>, <<"B", -100>> }

\* a PNG larger than MAX_IMAGE_BYTES
FilePngBig == Upload("i.png", "image/png",
                     _PNG_MAGIC \o ImageHeader(300, 200, TRUE) \o Scan(MAX_IMAGE_BYTES))
\* the part a browser sends for a file field left empty
FileNotChosen == Upload("", "application/octet-stream", <<>>)

\* the files tried on the forms; the fourth is a PNG declared as image/gif
FilesUp ==
    { FilePngAlpha, FileJpeg, FileGif,
      Upload("h.gif", "image/gif", _PNG_MAGIC \o ImageHeader(300, 200, TRUE) \o Scan(1)),
      FileEmpty, FilePngBig, FileGifAsPng, FileNotChosen, NoFile }

InitForm ==
    /\ db \in {EmptyTable, (1 :> LegacyNoImage), (1 :> LegacyLocalUrl)}
    /\ next_id = Cardinality(DOMAIN db) + 1
    /\ static_files = {}
    /\ persisted = [i \in {} |-> <<>>]
    /\ client_cache = NoCache
    /\ optimiser = NotRunning
    /\ index_read = NoRead
    /\ resp = NoResponse

NextForm ==
    \/ \E f \in FormsPrice, file \in FilesUp :
           admin_create_produto(GoodCred, NoCookie, f[1], f[2], file)
    \/ \E f \in FormsPrice, id \in Ids, file \in FilesUp :
           admin_edit_produto(GoodCred, NoCookie, id, f[1], f[2], file)

SpecForm == InitForm /\ [][NextForm]_vars

\* Caching: a client that keeps the images and ETags it received asks for
\* product images while the administrator creates products and edits them,
\* with and without a new image.
FilesEtag == { FilePngAlpha, FileJpeg, NoFile }

InitEtag ==
    /\ db \in {EmptyTable, (1 :> LegacyNoImage)}
    /\ next_id = Cardinality(DOMAIN db) + 1
    /\ static_files = {}
    /\ persisted = [i \in {} |-> <<>>]
    /\ client_cache = EmptyCache
    /\ optimiser = NotRunning
    /\ index_read = NoRead
    /\ resp = NoResponse

NextEtag ==
    \/ \E id \in Ids : \E inm \in InmChoices(id) : media_produto(id, inm)
    \/ \E f \in Forms, file \in FilesEtag \ {NoFile} :
           admin_create_produto(GoodCred, NoCookie, f[1], f[2], file)
    \/ \E f \in Forms, id \in Ids, file \in FilesEtag :
           admin_edit_produto(GoodCred, NoCookie, id, f[1], f[2], file)

SpecEtag == InitEtag /\ [][NextEtag]_vars

\* The optimiser: decodable images of every format Pillow reads here, with
\* and without an alpha channel, with sides from 1 pixel to MaxSide pixels
\* around the thresholds min_dim and IMAGE_MAX_DIM, and two files Pillow
\* cannot open.
MaxSide == 4000

Pictures ==
    LET Sides == {1, 300, 320, 321, 357, 1200, 1201, MaxSide}
    IN  { [data |-> magic \o ImageHeader(w, h, alpha) \o Scan(1),
           mime |-> _detect_image_mime_lenient(magic)] :
            magic \in {_PNG_MAGIC, _JPG_MAGIC, GIF_MAGIC},
            w \in Sides, h \in Sides, alpha \in BOOLEAN }
        \cup { [data |-> _PNG_MAGIC \o <<0, 0>>, mime |-> "image/png"],
               [data |-> _JPG_MAGIC \o ImageHeader(0, 10, FALSE), mime |-> "image/jpeg"] }

\* an empty table and no request made: the start of the specifications that
\* call one function on its own
InitEmpty ==
    /\ db = EmptyTable
    /\ next_id = 1
    /\ static_files = {}
    /\ persisted = [i \in {} |-> <<>>]
    /\ client_cache = NoCache
    /\ optimiser = NotRunning
    /\ index_read = NoRead
    /\ resp = NoResponse

NextOpt ==
    \/ \E p \in Pictures : optimiser_open(p.data, p.mime)
    \/ optimiser_pass

\* the call runs on a thread of its own request: it is not held up forever
SpecOpt == InitEmpty /\ [][NextOpt]_vars /\ WF_vars(optimiser_pass)

\* The pagination list: every page of catalogues of 1 to MaxPages pages.
MaxPages == 15

NextItems ==
    \E total_pages \in 1..MaxPages : \E current_page \in 1..total_pages :
        build_pagination(current_page, total_pages)

SpecItems == InitEmpty /\ [][NextItems]_vars

\* Interleaving: GET / read by read, while the administrator creates and
\* deletes products.
InitRace ==
    /\ db \in {EmptyTable, (1 :> LegacyNoImage)}
    /\ next_id = Cardinality(DOMAIN db) + 1
    /\ static_files = {}
    /\ persisted = [i \in {} |-> <<>>]
    /\ client_cache = NoCache
    /\ optimiser = NotRunning
    /\ index_read = NoRead
    /\ resp = NoResponse

NextRace ==
    \/ \E page \in {1, 2} : index_count(page)
    \/ index_page
    \/ \E f \in Forms, file \in {FilePngAlpha, FileJpeg} :
           admin_create_produto(GoodCred, NoCookie, f[1], f[2], file)
    \/ \E id \in Ids : admin_delete_produto(GoodCred, NoCookie, id)

SpecRace == InitRace /\ [][NextRace]_vars

-----------------------------------------------------------------------------
(* Properties of the media endpoint *)

\* the product `id` has stored image bytes, as the handlers test it
HasImage(id) == Found(db, id) /\ Truthy(db[id].imagem_bytes)

HasSignature(data) == StartsWith(data, _PNG_MAGIC) \/ StartsWith(data, _JPG_MAGIC)

Quoted(text) == <<DQUOTE>> \o text \o <<DQUOTE>>

Quotes(n) == [i \in 1..n |-> DQUOTE]

\* header is text with any number of double quotes before and after it
QuotedForm(header, text) ==
    /\ header /= None
    /\ \E i \in 0..Len(header), j \in 0..Len(header) :
           header = Quotes(i) \o text \o Quotes(j)

IsMedia == resp.endpoint = "media_produto"

\* C1 as stated: for every product with stored image bytes, a media request
\* whose If-None-Match is the content hash (bare or as a quoted entity tag)
\* gets 304 and an empty body, and a request whose If-None-Match is absent
\* or different gets 200, the stored bytes and the digest of the body as ETag.
C1_MediaConditionalGet ==
    (IsMedia /\ HasImage(resp.produto_id)) =>
        LET stored == db[resp.produto_id].imagem_bytes
            hash   == sha256_hexdigest(stored)
        IN  IF resp.inm \in {hash, Quoted(hash)}
            THEN resp.status = 304 /\ resp.body = <<>>
            ELSE /\ resp.status = 200
                 /\ resp.body = stored
                 /\ resp.etag = Quoted(sha256_hexdigest(resp.body))

\* C1 amended: for every product whose stored image bytes start with the PNG
\* or JPEG signature, a media request whose If-None-Match, once its leading
\* and trailing double quotes are removed, is the content hash gets 304 and
\* an empty body; any other request (header absent, empty or different) gets
\* 200, the stored bytes and, as ETag, the quoted digest of the body.
C1_MediaConditionalGetSigned ==
    (IsMedia /\ HasImage(resp.produto_id)
             /\ HasSignature(db[resp.produto_id].imagem_bytes)) =>
        LET stored == db[resp.produto_id].imagem_bytes
            hash   == sha256_hexdigest(stored)
        IN  IF QuotedForm(resp.inm, hash)
            THEN resp.status = 304 /\ resp.body = <<>>
            ELSE /\ resp.status = 200
                 /\ resp.body = stored
                 /\ resp.etag = Quoted(sha256_hexdigest(resp.body))

\* a quoted entity tag was presented and answered 304
C1_Witness ==
    /\ IsMedia /\ HasImage(resp.produto_id)
    /\ resp.status = 304
    /\ resp.inm = Quoted(sha256_hexdigest(db[resp.produto_id].imagem_bytes))

C9_CorruptStoredImageFails ==
    (IsMedia /\ HasImage(resp.produto_id)
             /\ ~HasSignature(db[resp.produto_id].imagem_bytes)) =>
        resp.status = 500

\* a corrupt stored image was requested and refused
C9_Witness ==
    /\ IsMedia /\ HasImage(resp.produto_id)
    /\ ~HasSignature(db[resp.produto_id].imagem_bytes)
    /\ resp.status = 500

-----------------------------------------------------------------------------
(* Properties of the admin endpoints *)

AdminEndpoints ==
    {"admin_page", "admin_create_produto", "admin_edit_produto", "admin_delete_produto"}

UploadEndpoints == {"admin_create_produto", "admin_edit_produto"}

\* the file declares an allowed image type and its leading bytes are neither
\* the PNG nor the JPEG signature
BadSignature(file) ==
    /\ file.present
    /\ file.content_type \in {"image/png", "image/jpeg"}
    /\ ~HasSignature(file.data)

StoreUnchanged == db' = db /\ next_id' = next_id /\ persisted' = persisted

\* C3 as stated: an (authenticated) admin create or edit whose uploaded file
\* declares image/png or image/jpeg and has neither signature is answered
\* 400, and the product table is left as it was.
C3_BadSignatureRejected ==
    [][ (/\ resp'.endpoint \in UploadEndpoints
         /\ resp'.status /= 401
         /\ BadSignature(resp'.imagem_arquivo))
        => (resp'.status = 400 /\ StoreUnchanged) ]_vars

\* C3 amended: an authenticated admin create or edit whose uploaded file has
\* a file name, declares image/png or image/jpeg and has neither signature is
\* refused, with 413 when the file is larger than MAX_IMAGE_BYTES and with
\* 400 otherwise, and the product table is left as it was.
C3_BadSignatureRefused ==
    [][ (/\ resp'.endpoint \in UploadEndpoints
         /\ resp'.status /= 401
         /\ BadSignature(resp'.imagem_arquivo)
         /\ resp'.imagem_arquivo.filename /= "")
        => (/\ resp'.status =
                 IF Len(resp'.imagem_arquivo.data) > MAX_IMAGE_BYTES THEN 413 ELSE 400
            /\ StoreUnchanged) ]_vars

\* an edit of an existing product was refused for its file's signature
C3_Witness ==
    /\ resp.endpoint = "admin_edit_produto"
    /\ resp.status = 400
    /\ resp.imagem_arquivo = FileGifAsPng
    /\ Found(db, resp.produto_id)

IdsOf(views) == {views[k].id : k \in 1..Len(views)}

ExpiredSigned(cookie) == cookie.token /\ cookie.signed /\ cookie.expired

ConfiguredAdmin(cred) ==
    cred.present /\ cred.username = ADMIN_USER /\ cred.password = ADMIN_PASSWORD

C10_WrongCredentialsChangeNothing ==
    [][ (resp'.endpoint \in AdminEndpoints /\ ~ConfiguredAdmin(resp'.cred))
        => (resp'.status = 401 /\ StoreUnchanged) ]_vars

\* an edit of an existing product with the right username and a wrong
\* password was refused
C10_Witness ==
    /\ resp.endpoint = "admin_edit_produto"
    /\ resp.cred = WrongPass
    /\ resp.status = 401
    /\ Found(db, 1)

-----------------------------------------------------------------------------
(* Properties of the home page's pagination *)

IsIndex == resp.endpoint = "index"

Ativos == {i \in DOMAIN db : db[i].ativo}

\* the least k with k * size >= n, that is ceiling(n / size)
Ceiling(n, size) == CHOOSE k \in 0..n : k * size >= n /\ (k = 0 \/ (k - 1) * size < n)

\* the last valid page of a catalogue of n active products
LastPage(n) == IF n = 0 THEN 1 ELSE Ceiling(n, 10)

\* C4: for every integer page given to GET / the request does not fail; a
\* page of 0 or less is served as page 1, a page beyond the last valid page
\* as the last page, and a page inside the range unchanged.
C4_PageClamped ==
    IsIndex =>
        /\ resp.status = 200
        /\ resp.pagina_atual =
             IF resp.page <= 0 THEN 1
             ELSE IF resp.page > LastPage(Cardinality(Ativos))
             THEN LastPage(Cardinality(Ativos))
             ELSE resp.page

\* C5 as stated: for every number n >= 0 of active products the page count
\* GET / computes is ceiling(n / 10).
C5_TotalPagesIsCeiling ==
    (IsIndex /\ resp.status = 200) =>
        /\ resp.total_produtos = Cardinality(Ativos)
        /\ resp.total_paginas = Ceiling(Cardinality(Ativos), 10)

\* C5 amended: for every number n >= 1 of active products the page count
\* GET / computes is ceiling(n / 10), and for n = 0 it is 1; in particular 23
\* active products give 3 pages.
C5_TotalPagesIsCeilingOrOne ==
    (IsIndex /\ resp.status = 200) =>
        /\ resp.total_produtos = Cardinality(Ativos)
        /\ resp.total_paginas =
             IF Cardinality(Ativos) = 0 THEN 1 ELSE Ceiling(Cardinality(Ativos), 10)

\* the home page of a catalogue of 23 active products counted 3 pages
C5_Witness ==
    /\ IsIndex /\ resp.status = 200
    /\ Cardinality(Ativos) = 23
    /\ resp.total_paginas = 3

-----------------------------------------------------------------------------
(* Properties of the image reference *)

IsDetail == resp.endpoint = "produto_detail" /\ resp.status = 200

MediaPath(id) == Chars_media \o IntToStr(id)

\* the URL names a file served from the local directories /uploads/ or
\* /images/
IsLocalUrl(url) == StartsWith(url, Chars_uploads) \/ StartsWith(url, Chars_images)

\* C8 as stated: the image reference of a product is the media path of its id
\* when image bytes are present; otherwise, when imagem_url is set, exactly
\* that URL, whatever it is; otherwise the fixed placeholder path.
C8_ImageUrlVerbatim ==
    IsDetail =>
        LET row == db[resp.produto_id]
        IN  resp.p.imagem_url =
                IF Truthy(row.imagem_bytes) THEN MediaPath(resp.produto_id)
                ELSE IF Truthy(row.imagem_url) THEN row.imagem_url
                ELSE PLACEHOLDER

\* C8 amended: the image reference of a product is the media path of its id
\* when image bytes are present; otherwise, when imagem_url is set, that URL
\* unchanged, except that a URL starting with /uploads/ or /images/ whose
\* file does not exist under static/ gives the placeholder path; otherwise
\* the fixed placeholder path.
C8_ImageUrlVerbatimUnlessMissingLocal ==
    IsDetail =>
        LET row == db[resp.produto_id]
        IN  resp.p.imagem_url =
                IF Truthy(row.imagem_bytes) THEN MediaPath(resp.produto_id)
                ELSE IF ~Truthy(row.imagem_url) THEN PLACEHOLDER
                ELSE IF IsLocalUrl(row.imagem_url)
                        /\ (Chars_static \o row.imagem_url) \notin static_files
                THEN PLACEHOLDER
                ELSE row.imagem_url

\* a local URL whose file exists was kept as it is
C8_Witness ==
    /\ IsDetail
    /\ ~Truthy(db[resp.produto_id].imagem_bytes)
    /\ Truthy(db[resp.produto_id].imagem_url)
    /\ IsLocalUrl(db[resp.produto_id].imagem_url)
    /\ resp.p.imagem_url = db[resp.produto_id].imagem_url

-----------------------------------------------------------------------------
(* Properties of the public endpoints *)

PublicEndpoints ==
    {"index", "produto_detail", "api_produtos", "media_produto", "api_whatsapp"}

\* C11: a public request (GET /, GET /produto/{id}, GET /api/produtos,
\* GET /media/produto/{id}, POST /api/whatsapp) leaves the table as it was:
\* the same products, each with the same imagem_url, image bytes, MIME, name,
\* price and active flag, although the handlers assign the resolved URL to
\* the records they fetched.
C11_PublicRequestsWriteNothing ==
    [][ resp'.endpoint \in PublicEndpoints =>
          /\ DOMAIN db' = DOMAIN db
          /\ \A i \in DOMAIN db :
                /\ db'[i].imagem_url = db[i].imagem_url
                /\ db'[i].imagem_bytes = db[i].imagem_bytes
                /\ db'[i].imagem_mime = db[i].imagem_mime
                /\ db'[i].nome = db[i].nome
                /\ db'[i].valor = db[i].valor
                /\ db'[i].ativo = db[i].ativo ]_vars

\* the detail page showed a reference that is not the stored imagem_url
C11_Witness ==
    /\ resp.endpoint = "produto_detail"
    /\ resp.status = 200
    /\ resp.p.imagem_url /= db[resp.produto_id].imagem_url

\* text has part as a run of consecutive characters
Contains(text, part) ==
    \E i \in 1..(Len(text) - Len(part) + 1) :
        SubSeq(text, i, i + Len(part) - 1) = part

RECURSIVE CartTotal(_)
\* the sum over the items of quantity times unit price
CartTotal(items) ==
    IF items = <<>> THEN 0
    ELSE Head(items).quantidade * Head(items).valor_unitario + CartTotal(Tail(items))

\* C15: POST /api/whatsapp on a cart that is a list of items answers with a
\* link; for an empty cart the bare contact link, without text; otherwise a
\* link whose encoded text names every item and gives as total the sum over
\* the items of quantity times unit price.
C15_CartGivesLink ==
    (resp.endpoint = "api_whatsapp" /\ resp.payload.type = "list") =>
        LET items == resp.payload.elems
        IN  /\ resp.status = 200
            /\ items = <<>> => resp.url = Chars_wa_me \o WHATSAPP_NUMERO
            /\ items /= <<>> =>
                 /\ StartsWith(resp.url, Chars_wa_me \o WHATSAPP_NUMERO \o Chars_text_param)
                 /\ \A k \in 1..Len(items) :
                        Contains(resp.url, quote_plus(items[k].nome))
                 /\ Contains(resp.url,
                             quote_plus(Chars_total \o Fmt2(CartTotal(items)) \o <<"\n">>))

-----------------------------------------------------------------------------
(* Properties of the admin forms *)

\* C12: in every state of the table every product's price is at least zero:
\* no admin create or edit with a negative valor leaves a product with a
\* negative price.
C12_PriceNonNegative ==
    \A i \in DOMAIN db : db[i].valor >= 0

IsUploadStep == resp'.endpoint \in UploadEndpoints /\ resp'.status /= 401

\* the step wrote image bytes for some product
ImageWritten ==
    \E i \in DOMAIN db' :
        \/ i \notin DOMAIN db
        \/ db'[i].imagem_bytes /= db[i].imagem_bytes

\* the file is empty, larger than MAX_IMAGE_BYTES or of a type outside the
\* allow-list
Unacceptable(file) ==
    \/ file.data = <<>>
    \/ Len(file.data) > MAX_IMAGE_BYTES
    \/ file.content_type \notin {"image/png", "image/jpeg"}

-----------------------------------------------------------------------------
(* Properties of the ETag across edits *)

\* the images the files of FilesEtag are stored as
StoredImages ==
    { _read_image_upload(f).data : f \in FilesEtag \ {NoFile} }

\* C16: a media request that presents, as If-None-Match, the ETag the client
\* holds for the product gets 304 as long as the stored bytes are those the
\* client holds (in particular after an edit that uploaded no image); once
\* an edit has replaced the image with different bytes it never gets 304: it
\* gets 200 with the new bytes and their ETag, which is not the one presented.
C16_ETagFollowsReplacement ==
    [][ (/\ resp'.endpoint = "media_produto"
         /\ resp'.produto_id \in DOMAIN client_cache.held
         /\ resp'.inm = client_cache.held[resp'.produto_id].etag
         /\ HasImage(resp'.produto_id))
        => LET held   == client_cache.held[resp'.produto_id]
               stored == db[resp'.produto_id].imagem_bytes
           IN  IF held.body /= stored
               THEN /\ resp'.status = 200
                    /\ resp'.body = stored
                    /\ resp'.etag = Quoted(sha256_hexdigest(stored))
                    /\ resp'.etag /= resp'.inm
               ELSE resp'.status = 304 ]_vars

\* the ETag of a replaced image was presented and the new image was sent
C16_Witness ==
    /\ resp.endpoint = "media_produto"
    /\ resp.status = 200
    /\ \E old \in StoredImages :
           /\ old /= resp.body
           /\ resp.inm = Quoted(sha256_hexdigest(old))
    /\ resp.body = db[resp.produto_id].imagem_bytes

-----------------------------------------------------------------------------
(* Properties of the upload optimiser *)

Longest(img) == Max2(img.w, img.h)

\* C17: for every image Pillow can open the loop of _optimize_image_bytes
\* ends; each pass either returns or leaves a strictly shorter longest side
\* to the next pass; it returns only when the encoded size is at most
\* TARGET_IMAGE_BYTES or the longest side is at most 320 pixels; the type it
\* returns is image/png exactly when the image has an alpha channel and
\* image/jpeg otherwise, and it is the type the returned bytes are encoded in.
C17_OptimiserTerminates ==
    /\ (optimiser.pc = "loop") ~> (optimiser.pc = "returned")
    /\ [][ optimiser.pc = "loop" =>
             \/ optimiser'.pc = "returned"
             \/ /\ optimiser'.pc = "loop"
                /\ Longest(optimiser'.img) < Longest(optimiser.img) ]_vars
    /\ [](optimiser.pc = "returned" =>
             /\ \/ Len(optimiser.out_bytes) <= TARGET_IMAGE_BYTES
                \/ Longest(optimiser.img) <= 320
             /\ optimiser.out_mime =
                  (IF Image_open(optimiser.data).alpha THEN "image/png" ELSE "image/jpeg")
             /\ HasSignature(optimiser.out_bytes)
             /\ StartsWith(optimiser.out_bytes, _PNG_MAGIC)
                  <=> optimiser.out_mime = "image/png"
             /\ StartsWith(optimiser.out_bytes, _JPG_MAGIC)
                  <=> optimiser.out_mime = "image/jpeg")

\* a picture was returned over the target size, after passes that shrank it
\* to the smallest side the loop goes to
C17_Witness ==
    /\ optimiser.pc = "returned"
    /\ Len(optimiser.out_bytes) > TARGET_IMAGE_BYTES
    /\ Longest(optimiser.img) <= 320
    /\ Longest(optimiser.img) < Longest(_resize_if_needed(Image_open(optimiser.data), IMAGE_MAX_DIM))

-----------------------------------------------------------------------------
(* Properties of the pagination list *)

IsItems == resp.endpoint = "_build_pagination_items"

\* C18: for total_pages >= 1 and current_page in 1..total_pages the list of
\* _build_pagination_items has integer entries that increase strictly, start
\* with 1, end with total_pages and include current_page; for
\* total_pages <= 7 it is exactly 1..total_pages, without ellipsis; and every
\* ellipsis stands between two integers that differ by at least 2 (so never
\* first, last or next to another ellipsis).
C18_PaginationItems ==
    (IsItems /\ resp.total_pages >= 1 /\ resp.current_page \in 1..resp.total_pages) =>
        LET items == resp.items
            n     == Len(items)
            pages == {k \in 1..n : items[k] /= Ellipsis}
        IN  /\ n >= 1
            /\ items[1] = 1
            /\ items[n] = resp.total_pages
            /\ \E k \in pages : items[k] = resp.current_page
            /\ \A i \in pages, j \in pages : i < j => items[i] < items[j]
            /\ \A k \in pages : items[k] \in 1..resp.total_pages
            /\ resp.total_pages <= 7 =>
                 /\ n = resp.total_pages
                 /\ \A k \in 1..n : items[k] = k
            /\ \A k \in (1..n) \ pages :
                 /\ 1 < k /\ k < n
                 /\ items[k - 1] /= Ellipsis
                 /\ items[k + 1] /= Ellipsis
                 /\ items[k + 1] - items[k - 1] >= 2

\* a list with an ellipsis on each side of the window
C18_Witness ==
    /\ IsItems
    /\ resp.total_pages = 12
    /\ resp.current_page = 6
    /\ resp.items = <<1, Ellipsis, 5, 6, 7, Ellipsis, 12>>

-----------------------------------------------------------------------------
(* Properties of the home page under interleaving *)

\* C19: whatever admin create or delete commits between the two reads of
\* GET /, the response has pagina_atual <= total_paginas, lists at most 10
\* products, and lists at least one product whenever total_produtos > 0.
C19_IndexConsistent ==
    (IsIndex /\ resp.status = 200) =>
        /\ resp.pagina_atual <= resp.total_paginas
        /\ Len(resp.produtos) <= 10
        /\ resp.total_produtos > 0 => Len(resp.produtos) > 0

-----------------------------------------------------------------------------
(* Properties of the images stored through the admin forms *)

\* C20: every product whose image was stored by an admin create or edit has
\* a stored MIME type of image/png or image/jpeg that is the type its stored
\* bytes begin with the signature of, and a media request for it is never
\* answered 500 (nor 404): it gets 200 or 304.
C20_UploadedImagesServable ==
    /\ \A id \in DOMAIN persisted :
          /\ Found(db, id)
          /\ \/ /\ db[id].imagem_mime = "image/png"
                /\ StartsWith(db[id].imagem_bytes, _PNG_MAGIC)
             \/ /\ db[id].imagem_mime = "image/jpeg"
                /\ StartsWith(db[id].imagem_bytes, _JPG_MAGIC)
    /\ (IsMedia /\ resp.produto_id \in DOMAIN persisted) => resp.status \in {200, 304}

\* an uploaded picture with an alpha channel was served as a PNG
C20_Witness ==
    /\ IsMedia
    /\ resp.produto_id \in DOMAIN persisted
    /\ resp.status = 200
    /\ resp.media_type = "image/png"
    /\ StartsWith(resp.body, _PNG_MAGIC)

====
